---- MODULE Spec2Model ----
(***************************************************************************)
(* Model of the authentication / session-token subsystem of the AUCA       *)
(* alumni API: the FastAPI router routers/auth.py (the only auth router    *)
(* main.py mounts), utils/security.py, and the tables users,               *)
(* personal_information and revoked_tokens of models.py; and of the routers *)
(* opportunities, opportunity_histories, discussions and donations.         *)
(*                                                                         *)
(* Every handler is a pure "result" operator of the current database state *)
(* (what the handler answers and what it would commit) plus an action that *)
(* applies one result.  Time is counted in minutes.                        *)
(*                                                                         *)
(* Seven specifications share the handlers:                                *)
(*   Spec              the auth router, each request handled in one step;  *)
(*   RegistrationSpec  the registration handlers, with the steps of        *)
(*                     concurrent requests interleaved at their commits;   *)
(*   ContentSpec       opportunities and their histories, behind           *)
(*                     get_current_user, with users coming and going;      *)
(*   PostingSpec       discussions and donations, behind get_current_user, *)
(*                     with logins, registrations and the clock;           *)
(*   FacultySpec       the faculties router, behind get_current_user, with *)
(*                     logins and the clock;                               *)
(*   ProfileSpec       update_profile with registrations, logins and the   *)
(*                     clock;                                              *)
(*   PendingSpec       the two-step registration with the logins tried     *)
(*                     during it.                                          *)
(***************************************************************************)
EXTENDS Integers, Sequences, FiniteSets, TLC

VARIABLES
    users,                 \* rows of table users
    next_user_id,          \* AUTO_INCREMENT counter of users.id
    personal_information,  \* rows of table personal_information
    revoked_tokens,        \* jti column of table revoked_tokens
    issued,                \* tokens signed with SECRET_KEY so far
    pending_email,         \* initiate_registration requests between commit and e-mail outcome
    now,                   \* datetime.utcnow(), in minutes
    resp,                  \* the last HTTP response sent (with the request it answers)
    registering,           \* registration requests between their checks and their insert
    opportunities,         \* rows of table opportunities
    next_opportunity_id,   \* AUTO_INCREMENT counter of opportunities.id
    opportunity_histories, \* rows of table opportunity_histories
    next_history_id,       \* AUTO_INCREMENT counter of opportunity_histories.id
    discussions,           \* rows of table discussions
    donations,             \* rows of table donations
    faculties,             \* rows of table faculties
    next_faculty_id        \* AUTO_INCREMENT counter of faculties.id

auth_vars == <<users, next_user_id, personal_information, revoked_tokens, issued,
               pending_email, now, resp>>

content_vars == <<opportunities, next_opportunity_id, opportunity_histories,
                  next_history_id, discussions, donations>>

faculty_vars == <<faculties, next_faculty_id>>

vars == <<auth_vars, registering, content_vars, faculty_vars>>

----------------------------------------------------------------------------
(* Bounds of the model *)

MaxNow == 120
TickMinutes == 60
MaxJti == 2
MaxUserId == 2
MaxInFlight == 2      \* registration requests in flight at once
MaxRacingId == 3      \* users.id values handed out under RegistrationSpec
MaxRows == 2          \* opportunities ever inserted
MaxPosts == 1         \* histories, messages, and donations, ever inserted

(* Program constants *)

ACCESS_TOKEN_EXPIRE_MINUTES == 60
OTP_EXPIRE_MINUTES == 15      \* "This code will expire in 15 minutes."
SECRET_KEY == "1234567890"

(* Python's None, for nullable string columns and optional request fields *)
None == "None"

(* Input alphabets of the requests *)
Students    == {1, 2}           \* ids of the rows of table students (no endpoint writes it)
StudentIds  == {1, 2, 3}        \* student_id values a request may carry
Emails      == {"e1", "e2"}
Passwords   == {"pw1", "pw2"}
Otps        == {"111111", "222222"}  \* OTPs a complete_registration request may carry
SentOtps    == {"111111"}            \* values of random.randint(0, 999999), formatted
Usernames   == Emails \cup {"p1", ""} \* what a login request may carry as username
\* Bodies a login request may carry
LoginBody(username, password) == [username |-> username, password |-> password]
LoginBodies ==
    {LoginBody("e1", "pw1"), LoginBody("e1", "pw2"),
     LoginBody("e2", "pw2"), LoginBody("e2", ""),
     LoginBody("p1", "pw1"), LoginBody("p1", "pw2"),
     LoginBody("", "pw1")}
NewPasswords == {"pw2"}              \* passwords a registration may set
\* Bodies a register_user or initiate_registration request may carry
RegistrationBody(student_id, email, phone_number) ==
    [student_id |-> student_id, email |-> email, phone_number |-> phone_number]
RegistrationBodies ==
    {RegistrationBody(1, "e1", "p1"),
     RegistrationBody(2, "e1", "p2"),
     RegistrationBody(2, "e2", "p1"),
     RegistrationBody(2, "e2", "p2"),
     RegistrationBody(3, "e2", "p2")}
\* Bodies an update_profile request may carry (omitted fields are None)
ProfileBody(email, phone_number, bio, address, gender) ==
    [email |-> email, phone_number |-> phone_number, bio |-> bio,
     address |-> address, gender |-> gender]
ProfileBodies ==
    {ProfileBody(None, None, "b1", "a1", "True"),
     ProfileBody("e2", None, "b1", "a1", "True"),
     ProfileBody("e2", None, None, None, None),
     ProfileBody(None, "p2", None, None, None),
     ProfileBody(None, None, "b1", "a1", None),
     ProfileBody(None, None, "b1", None, "True")}
JTIS        == 1..MaxJti        \* the values uuid.uuid4() may return

----------------------------------------------------------------------------
(* passlib's bcrypt context: hash() and verify() *)

\* pwd_context.hash(password): a salted bcrypt hash, which verifies exactly
\* the password it was made from.
pwd_hash(password) == [scheme |-> "bcrypt", secret |-> password]

\* The value initiate_registration stores in users.password: the empty string.
EmptyPassword == [scheme |-> "", secret |-> ""]

\* Mutation of verify_password: a stored value that is no bcrypt hash is
\* accepted instead of raising.
verify_password_unhashed(plain_password, hashed_password) ==
    IF hashed_password.scheme # "bcrypt" THEN "True"
    ELSE IF hashed_password.secret = plain_password THEN "True"
    ELSE "False"

\* verify_password(plain, hashed): CryptContext.verify identifies the hash's
\* scheme first and raises UnknownHashError for a string that is no bcrypt
\* hash (the empty string of a user whose registration is not completed);
\* the handler does not catch it.
verify_password(plain_password, hashed_password) ==
    IF hashed_password.scheme # "bcrypt" THEN "UnknownHashError"
    ELSE IF hashed_password.secret = plain_password THEN "True"
    ELSE "False"

----------------------------------------------------------------------------
(* str(user.id) and int(payload["sub"]) *)

Digits == <<"0", "1", "2", "3", "4", "5", "6", "7", "8", "9">>

RECURSIVE Str(_)
Str(n) == IF n < 10 THEN Digits[n + 1]
          ELSE Str(n \div 10) \o Digits[(n % 10) + 1]

\* int(s): the number whose decimal writing s is; -1 stands for ValueError.
IntOf(s) == LET written == {n \in 0..(MaxUserId + 1) : Str(n) = s} IN
            IF written = {} THEN -1 ELSE CHOOSE n \in written : TRUE

----------------------------------------------------------------------------
(* Tokens: utils/security.py *)

NoToken == [sub |-> None, exp |-> 0, jti |-> 0, key |-> ""]

\* create_access_token({"sub": sub}) at time t, with uuid4() = jti.
create_access_token(sub, jti, t) ==
    [sub |-> sub, exp |-> t + ACCESS_TOKEN_EXPIRE_MINUTES, jti |-> jti,
     key |-> SECRET_KEY]

\* The HS256 signature verifies iff the token was signed with SECRET_KEY.
SignatureValid(token) == token.key = SECRET_KEY

\* python-jose's expiry check, _validate_exp: "if exp < now: raise
\* ExpiredSignatureError" (ExpiredSignatureError is a JWTError).
Expired(token, t) == token.exp < t

NoPayload == [ok |-> FALSE, sub |-> None, jti |-> 0]

\* Mutation of decode_access_token: the expiry comparison is turned around.
decode_access_token_reversed(token, t) ==
    IF ~SignatureValid(token) THEN NoPayload
    ELSE IF token.exp > t THEN NoPayload
    ELSE [ok |-> TRUE, sub |-> token.sub, jti |-> token.jti]

\* decode_access_token(token) at time t: the payload, or None on JWTError.
decode_access_token(token, t) ==
    IF ~SignatureValid(token) THEN NoPayload
    ELSE IF Expired(token, t) THEN NoPayload
    ELSE [ok |-> TRUE, sub |-> token.sub, jti |-> token.jti]

\* A copy of a token whose expiry was edited by the client: the signature no
\* longer verifies.
Tampered(token) ==
    [token EXCEPT !.exp = @ + ACCESS_TOKEN_EXPIRE_MINUTES, !.key = "tampered"]

\* uuid4() returns an identifier that was never used before.  Identifiers are
\* opaque, so which unused one it is makes no difference: the least is taken.
UnusedJtis == JTIS \ ({t.jti : t \in issued} \cup revoked_tokens)
FreshJtis == {jti \in UnusedJtis : \A other \in UnusedJtis : jti <= other}

----------------------------------------------------------------------------
(* Responses *)

Response(op, status, error, token, user_id) ==
    [op |-> op, status |-> status, error |-> error, token |-> token,
     user_id |-> user_id, repeat |-> FALSE]

Idle == Response("none", 0, "", NoToken, 0)

----------------------------------------------------------------------------
(* routers/auth.py: the dependency get_current_user *)

Unauthorized(error) == [status |-> 401, error |-> error, user_id |-> 0]

\* Mutation of get_current_user: the token is decoded without the expiry
\* check, and the expiry is tested only after the revocation lookup.
get_current_user_expiry_late(token) ==
    IF ~SignatureValid(token) \/ token.sub = None
    THEN Unauthorized("invalid_token")
    ELSE IF token.jti \in revoked_tokens
    THEN Unauthorized("token_revoked")
    ELSE IF Expired(token, now)
    THEN Unauthorized("invalid_token")
    ELSE LET user_id == IntOf(token.sub) IN
         IF user_id = -1
         THEN [status |-> 500, error |-> "ValueError", user_id |-> 0]
         ELSE IF ~\E user \in users : user.id = user_id
         THEN Unauthorized("user_not_found")
         ELSE [status |-> 200, error |-> "", user_id |-> user_id]

\* Mutation of get_current_user: a per-user cache of the last successful
\* authentication stands in for the revocation lookup.
get_current_user_cached(token) ==
    LET payload == decode_access_token(token, now) IN
    IF ~payload.ok \/ payload.sub = None
    THEN Unauthorized("invalid_token")
    ELSE IF /\ ~(resp.status = 200 /\ Str(resp.user_id) = payload.sub)
            /\ payload.jti \in revoked_tokens
    THEN Unauthorized("token_revoked")
    ELSE LET user_id == IntOf(payload.sub) IN
         IF user_id = -1
         THEN [status |-> 500, error |-> "ValueError", user_id |-> 0]
         ELSE IF ~\E user \in users : user.id = user_id
         THEN Unauthorized("user_not_found")
         ELSE [status |-> 200, error |-> "", user_id |-> user_id]

\* Mutation of get_current_user: the revocation lookup is left out.
get_current_user_unchecked(token) ==
    LET payload == decode_access_token(token, now) IN
    IF ~payload.ok \/ payload.sub = None
    THEN Unauthorized("invalid_token")
    ELSE LET user_id == IntOf(payload.sub) IN
         IF user_id = -1
         THEN [status |-> 500, error |-> "ValueError", user_id |-> 0]
         ELSE IF ~\E user \in users : user.id = user_id
         THEN Unauthorized("user_not_found")
         ELSE [status |-> 200, error |-> "", user_id |-> user_id]

\* What get_current_user(token) answers in the current state: the user
\* (status 200 and its id), or the HTTPException it raises.  Both queries run
\* in one session, on one snapshot of the database.
get_current_user(token) ==
    LET payload == decode_access_token(token, now) IN
    IF ~payload.ok \/ payload.sub = None
    THEN Unauthorized("invalid_token")
    ELSE IF payload.jti \in revoked_tokens
    THEN Unauthorized("token_revoked")
    ELSE LET user_id == IntOf(payload.sub) IN
         IF user_id = -1
         THEN [status |-> 500, error |-> "ValueError", user_id |-> 0]
         ELSE IF ~\E user \in users : user.id = user_id
         THEN Unauthorized("user_not_found")
         ELSE [status |-> 200, error |-> "", user_id |-> user_id]

----------------------------------------------------------------------------
(* routers/auth.py: login *)

\* db.query(Users).filter((email == username) | (phone_number == username)):
\* the rows .first() may return (the query has no ORDER BY).
LoginMatches(username) ==
    {user \in users : user.email = username \/ user.phone_number = username}

LoginFailure(status, error) ==
    [status |-> status, error |-> error, token |-> NoToken, user_id |-> 0]

\* Mutation of login: the subject claim is the user's email, not str(user.id).
login_result_email_subject(username, password) ==
    IF username = "" \/ password = ""
    THEN {LoginFailure(422, "")}
    ELSE IF LoginMatches(username) = {}
    THEN {LoginFailure(401, "invalid_credentials")}
    ELSE UNION {
        LET verified == verify_password(password, user.password) IN
        IF verified = "UnknownHashError"
        THEN {LoginFailure(500, "UnknownHashError")}
        ELSE IF verified = "False"
        THEN {LoginFailure(401, "invalid_credentials")}
        ELSE {[status |-> 200, error |-> "",
               token |-> create_access_token(user.email, jti, now),
               user_id |-> user.id] : jti \in FreshJtis}
        : user \in LoginMatches(username)}

\* The answers login may give to (username, password) in the current state.
login_result(username, password) ==
    IF username = "" \/ password = ""
    THEN {LoginFailure(422, "")}
    ELSE IF LoginMatches(username) = {}
    THEN {LoginFailure(401, "invalid_credentials")}
    ELSE UNION {
        LET verified == verify_password(password, user.password) IN
        IF verified = "UnknownHashError"
        THEN {LoginFailure(500, "UnknownHashError")}
        ELSE IF verified = "False"
        THEN {LoginFailure(401, "invalid_credentials")}
        ELSE {[status |-> 200, error |-> "",
               token |-> create_access_token(Str(user.id), jti, now),
               user_id |-> user.id] : jti \in FreshJtis}
        : user \in LoginMatches(username)}

\* Mutation of login: the jti of the token issued is kept in the user's row.
login_remembering(username, password) ==
    \E r \in login_result(username, password) :
        /\ issued' = IF r.status = 200 THEN issued \cup {r.token} ELSE issued
        /\ users' = IF r.status = 200
                    THEN {IF user.id = r.user_id
                          THEN [user EXCEPT !.remember_token = Str(r.token.jti)]
                          ELSE user : user \in users}
                    ELSE users
        /\ resp' = Response("login", r.status, r.error, r.token, r.user_id)
        /\ UNCHANGED <<next_user_id, personal_information, revoked_tokens,
                       pending_email, now>>

login(username, password) ==
    \E r \in login_result(username, password) :
        /\ issued' = IF r.status = 200 THEN issued \cup {r.token} ELSE issued
        /\ resp' = Response("login", r.status, r.error, r.token, r.user_id)
        /\ UNCHANGED <<users, next_user_id, personal_information, revoked_tokens,
                       pending_email, now>>

----------------------------------------------------------------------------
(* routers/auth.py: verify_token and logout *)

\* What verify_token answers.  With a personal_information row of the user
\* the handler puts the ORM object into JSONResponse(content=...), whose
\* json.dumps raises TypeError: the request ends as an unhandled 500.
verify_token_result(token) ==
    LET current == get_current_user(token) IN
    IF current.status = 200
       /\ \E pi \in personal_information : pi.user_id = current.user_id
    THEN [status |-> 500, error |-> "TypeError", user_id |-> current.user_id]
    ELSE current

verify_token(token) ==
    LET current == verify_token_result(token) IN
    /\ resp' = Response("verify_token", current.status, current.error, token,
                        current.user_id)
    /\ UNCHANGED <<users, next_user_id, personal_information, revoked_tokens,
                   issued, pending_email, now>>

\* Mutation of logout: it revokes every token issued to the user.
logout_result_all_sessions(token) ==
    LET current == get_current_user(token) IN
    IF current.status # 200
    THEN [status |-> current.status, error |-> current.error,
          revoked |-> revoked_tokens]
    ELSE [status |-> 200, error |-> "",
          revoked |-> revoked_tokens \cup
                        {t.jti : t \in {x \in issued : x.sub = token.sub}}]

\* Mutation of logout: it keeps one revocation row, overwritten by each logout.
logout_result_overwrite(token) ==
    LET current == get_current_user(token) IN
    IF current.status # 200
    THEN [status |-> current.status, error |-> current.error,
          revoked |-> revoked_tokens]
    ELSE [status |-> 200, error |-> "", revoked |-> {token.jti}]

\* What logout answers and the revoked_tokens table it leaves.  The
\* dependency returns a Users row; the body subscripts it (current['jti']),
\* which raises TypeError before db.add and db.commit are reached, so the
\* request ends as an unhandled 500 and nothing is inserted.
logout_result(token) ==
    LET current == get_current_user(token) IN
    IF current.status # 200
    THEN [status |-> current.status, error |-> current.error,
          revoked |-> revoked_tokens]
    ELSE [status |-> 500, error |-> "TypeError", revoked |-> revoked_tokens]

logout(token) ==
    LET r == logout_result(token) IN
    /\ revoked_tokens' = r.revoked
    /\ resp' = [Response("logout", r.status, r.error, token, 0)
                  EXCEPT !.repeat = (resp.op = "logout" /\ resp.token = token
                                     /\ resp.status # 401)]
    /\ UNCHANGED <<users, next_user_id, personal_information, issued,
                   pending_email, now>>

----------------------------------------------------------------------------
(* routers/auth.py: registration *)

\* db.query(Users).filter((email == data.email) | (student_id == data.student_id))
ExistingUsers(student_id, email) ==
    {user \in users : user.email = email \/ user.student_id = student_id}

NewUser(student_id, email, phone_number, password, remember_token) ==
    [id |-> next_user_id, email |-> email, phone_number |-> phone_number,
     password |-> password, student_id |-> student_id,
     remember_token |-> remember_token, created_at |-> now]

\* The answers register_user may give, each with the users table it commits.
register_user_result(student_id, email, phone_number, password) ==
    IF student_id \notin Students
    THEN {[status |-> 400, error |-> "invalid_student_id", users |-> users]}
    ELSE IF ExistingUsers(student_id, email) # {}
    THEN {[status |-> 400,
           error |-> IF existing.email = email THEN "email_exists"
                     ELSE "student_registered",
           users |-> users] : existing \in ExistingUsers(student_id, email)}
    ELSE {[status |-> 201, error |-> "",
           users |-> users \cup {NewUser(student_id, email, phone_number,
                                         pwd_hash(password), None)}]}

register_user(student_id, email, phone_number, password) ==
    \E r \in register_user_result(student_id, email, phone_number, password) :
        /\ r.status = 201 => next_user_id <= MaxUserId
        /\ users' = r.users
        /\ next_user_id' = IF r.status = 201 THEN next_user_id + 1 ELSE next_user_id
        /\ resp' = Response("register_user", r.status, r.error, NoToken,
                            IF r.status = 201 THEN next_user_id ELSE 0)
        /\ UNCHANGED <<personal_information, revoked_tokens, issued,
                       pending_email, now>>

\* initiate_registration up to its first db.commit(): the checks, and the
\* insert of a user with an empty password and the OTP in remember_token.
\* The response is sent only after send_otp_email has returned or raised.
initiate_registration(student_id, email, phone_number, otp) ==
    IF student_id \notin Students
    THEN /\ resp' = Response("initiate_registration", 400, "invalid_student_id",
                             NoToken, 0)
         /\ UNCHANGED <<users, next_user_id, personal_information,
                        revoked_tokens, issued, pending_email, now>>
    ELSE IF ExistingUsers(student_id, email) # {}
    THEN /\ resp' = Response("initiate_registration", 400, "already_registered",
                             NoToken, 0)
         /\ UNCHANGED <<users, next_user_id, personal_information,
                        revoked_tokens, issued, pending_email, now>>
    ELSE /\ next_user_id <= MaxUserId
         /\ users' = users \cup {NewUser(student_id, email, phone_number,
                                         EmptyPassword, otp)}
         /\ next_user_id' = next_user_id + 1
         /\ pending_email' = pending_email \cup {next_user_id}
         /\ UNCHANGED <<personal_information, revoked_tokens, issued, now, resp>>

\* send_otp_email returned: the handler answers 200.
send_otp_email_ok(id) ==
    /\ id \in pending_email
    /\ pending_email' = pending_email \ {id}
    /\ resp' = Response("initiate_registration", 200, "", NoToken, id)
    /\ UNCHANGED <<users, next_user_id, personal_information, revoked_tokens,
                   issued, now>>

\* Mutation of send_otp_email_failed: the 500 is raised without deleting the
\* row committed before.
send_otp_email_failed_kept(id) ==
    /\ id \in pending_email
    /\ pending_email' = pending_email \ {id}
    /\ resp' = Response("initiate_registration", 500, "email_failed", NoToken, id)
    /\ UNCHANGED <<users, next_user_id, personal_information, revoked_tokens,
                   issued, now>>

\* send_otp_email raised: db.delete(new_user), db.commit(), and a 500.
send_otp_email_failed(id) ==
    /\ id \in pending_email
    /\ pending_email' = pending_email \ {id}
    /\ users' = {user \in users : user.id # id}
    /\ resp' = Response("initiate_registration", 500, "email_failed", NoToken, id)
    /\ UNCHANGED <<next_user_id, personal_information, revoked_tokens, issued, now>>

\* db.query(Users).filter_by(student_id=..., remember_token=data.otp)
OtpMatches(student_id, otp) ==
    {user \in users : user.student_id = student_id /\ user.remember_token = otp}

complete_registration(student_id, otp, password) ==
    IF OtpMatches(student_id, otp) = {}
    THEN /\ resp' = Response("complete_registration", 400, "invalid_otp",
                             NoToken, 0)
         /\ UNCHANGED <<users, next_user_id, personal_information,
                        revoked_tokens, issued, pending_email, now>>
    ELSE \E user \in OtpMatches(student_id, otp) :
         /\ users' = (users \ {user}) \cup
                       {[user EXCEPT !.password = pwd_hash(password),
                                     !.remember_token = None]}
         /\ resp' = Response("complete_registration", 201, "", NoToken, user.id)
         /\ UNCHANGED <<next_user_id, personal_information, revoked_tokens,
                        issued, pending_email, now>>

----------------------------------------------------------------------------
(* routers/auth.py: registration requests that overlap.  The handlers are  *)
(* plain "def" functions, which FastAPI runs in a thread pool, each with a *)
(* session of its own: between the duplicate check (a SELECT) and the      *)
(* INSERT that db.commit() flushes, other requests may run.  The users     *)
(* table has no unique index on email or student_id.                       *)

RegistrationRequest(op, student_id, email, phone_number, password) ==
    [op |-> op, student_id |-> student_id, email |-> email,
     phone_number |-> phone_number, password |-> password]

\* register_user up to its duplicate check: it answers 400, or goes on to
\* hash the password and insert.
register_user_check(student_id, email, phone_number, password) ==
    \E r \in register_user_result(student_id, email, phone_number, password) :
        IF r.status = 201
        THEN LET request == RegistrationRequest("register_user", student_id,
                                                email, phone_number, password)
             IN /\ request \notin registering
                /\ Cardinality(registering) < MaxInFlight
                /\ registering' = registering \cup {request}
                /\ UNCHANGED <<auth_vars, content_vars>>
        ELSE /\ resp' = Response("register_user", r.status, r.error, NoToken, 0)
             /\ UNCHANGED <<users, next_user_id, personal_information,
                            revoked_tokens, issued, pending_email, now,
                            registering, content_vars>>

\* register_user from db.add(new_user) on: the insert, and the 201.
register_user_insert(request) ==
    /\ request \in registering
    /\ request.op = "register_user"
    /\ next_user_id <= MaxRacingId
    /\ users' = users \cup {NewUser(request.student_id, request.email,
                                    request.phone_number,
                                    pwd_hash(request.password), None)}
    /\ next_user_id' = next_user_id + 1
    /\ registering' = registering \ {request}
    /\ resp' = Response("register_user", 201, "", NoToken, next_user_id)
    /\ UNCHANGED <<personal_information, revoked_tokens, issued, pending_email,
                   now, content_vars>>

\* initiate_registration up to its duplicate check.
initiate_registration_check(student_id, email, phone_number) ==
    IF student_id \notin Students
    THEN /\ resp' = Response("initiate_registration", 400, "invalid_student_id",
                             NoToken, 0)
         /\ UNCHANGED <<users, next_user_id, personal_information,
                        revoked_tokens, issued, pending_email, now,
                        registering, content_vars>>
    ELSE IF ExistingUsers(student_id, email) # {}
    THEN /\ resp' = Response("initiate_registration", 400, "already_registered",
                             NoToken, 0)
         /\ UNCHANGED <<users, next_user_id, personal_information,
                        revoked_tokens, issued, pending_email, now,
                        registering, content_vars>>
    ELSE LET request == RegistrationRequest("initiate_registration", student_id,
                                            email, phone_number, "")
         IN /\ request \notin registering
            /\ Cardinality(registering) < MaxInFlight
            /\ registering' = registering \cup {request}
            /\ UNCHANGED <<auth_vars, content_vars>>

\* initiate_registration from the OTP draw to its first db.commit().
initiate_registration_insert(request, otp) ==
    /\ request \in registering
    /\ request.op = "initiate_registration"
    /\ next_user_id <= MaxRacingId
    /\ users' = users \cup {NewUser(request.student_id, request.email,
                                    request.phone_number, EmptyPassword, otp)}
    /\ next_user_id' = next_user_id + 1
    /\ pending_email' = pending_email \cup {next_user_id}
    /\ registering' = registering \ {request}
    /\ UNCHANGED <<personal_information, revoked_tokens, issued, now, resp,
                   content_vars>>

----------------------------------------------------------------------------
(* routers/auth.py: update_profile *)

\* "if data.email:" skips None and the empty string alike.
Given(value) == value # None /\ value # ""

\* Mutation of update_profile_result: the account fields set on the session
\* are committed even when the request is refused with 422.
update_profile_result_flushed(token, email, phone_number, bio, address, gender) ==
    LET current == get_current_user(token) IN
    IF current.status # 200
    THEN {[status |-> current.status, error |-> current.error, user_id |-> 0,
           users |-> users, personal_information |-> personal_information]}
    ELSE LET user == CHOOSE u \in users : u.id = current.user_id
             updated == [user EXCEPT
                           !.email = IF Given(email) THEN email ELSE @,
                           !.phone_number = IF Given(phone_number)
                                            THEN phone_number ELSE @]
             saved == (users \ {user}) \cup {updated}
             rows == {pi \in personal_information : pi.user_id = user.id}
         IN IF rows = {}
            THEN IF bio = None \/ address = None
                 THEN {[status |-> 422, error |-> "missing_fields", user_id |-> user.id,
                        users |-> saved,
                        personal_information |-> personal_information]}
                 ELSE IF gender = None
                 THEN {[status |-> 500, error |-> "IntegrityError", user_id |-> user.id,
                        users |-> users,
                        personal_information |-> personal_information]}
                 ELSE {[status |-> 200, error |-> "", user_id |-> user.id,
                        users |-> saved,
                        personal_information |-> personal_information \cup
                            {[user_id |-> user.id, bio |-> bio, address |-> address,
                              gender |-> gender]}]}
            ELSE {[status |-> 200, error |-> "", user_id |-> user.id,
                   users |-> saved,
                   personal_information |-> (personal_information \ {pi}) \cup
                       {[pi EXCEPT !.bio = IF bio # None THEN bio ELSE @,
                                   !.address = IF address # None THEN address ELSE @,
                                   !.gender = IF gender # None THEN gender ELSE @]}]
                  : pi \in rows}

\* The answers update_profile may give, each with the tables it commits.  A
\* 422 is raised before db.commit(), so the account fields set on the session
\* are rolled back with it; so are they when the INSERT of a new row fails on
\* personal_information.gender, which is NOT NULL (IntegrityError, a 500).
update_profile_result(token, email, phone_number, bio, address, gender) ==
    LET current == get_current_user(token) IN
    IF current.status # 200
    THEN {[status |-> current.status, error |-> current.error, user_id |-> 0,
           users |-> users, personal_information |-> personal_information]}
    ELSE LET user == CHOOSE u \in users : u.id = current.user_id
             updated == [user EXCEPT
                           !.email = IF Given(email) THEN email ELSE @,
                           !.phone_number = IF Given(phone_number)
                                            THEN phone_number ELSE @]
             saved == (users \ {user}) \cup {updated}
             rows == {pi \in personal_information : pi.user_id = user.id}
         IN IF rows = {}
            THEN IF bio = None \/ address = None
                 THEN {[status |-> 422, error |-> "missing_fields", user_id |-> user.id,
                        users |-> users,
                        personal_information |-> personal_information]}
                 ELSE IF gender = None
                 THEN {[status |-> 500, error |-> "IntegrityError", user_id |-> user.id,
                        users |-> users,
                        personal_information |-> personal_information]}
                 ELSE {[status |-> 200, error |-> "", user_id |-> user.id,
                        users |-> saved,
                        personal_information |-> personal_information \cup
                            {[user_id |-> user.id, bio |-> bio, address |-> address,
                              gender |-> gender]}]}
            ELSE {[status |-> 200, error |-> "", user_id |-> user.id,
                   users |-> saved,
                   personal_information |-> (personal_information \ {pi}) \cup
                       {[pi EXCEPT !.bio = IF bio # None THEN bio ELSE @,
                                   !.address = IF address # None THEN address ELSE @,
                                   !.gender = IF gender # None THEN gender ELSE @]}]
                  : pi \in rows}

update_profile(token, email, phone_number, bio, address, gender) ==
    \E r \in update_profile_result(token, email, phone_number, bio, address, gender) :
        /\ users' = r.users
        /\ personal_information' = r.personal_information
        /\ resp' = Response("update_profile", r.status, r.error, token, r.user_id)
        /\ UNCHANGED <<next_user_id, revoked_tokens, issued, pending_email, now>>

----------------------------------------------------------------------------
(* The content routers.  Each is built with                                *)
(* dependencies=[Depends(get_current_user)], so a request whose token does *)
(* not validate is answered by the dependency and the handler never runs.  *)

\* The user ids a request body may name.
PayloadUserIds == 1..MaxUserId

\* The photo part of the multipart form of add_opportunity.
Photos == {"image", "not_image"}

\* The ids a path may name.
OpportunityIds == 1..MaxRows
HistoryIds == 1..MaxPosts

\* The answer of the router-level dependency when it rejects the request.
Rejected(op, token) ==
    LET current == get_current_user(token) IN
    /\ current.status # 200
    /\ resp' = Response(op, current.status, current.error, token, 0)
    /\ UNCHANGED <<users, next_user_id, personal_information, revoked_tokens,
                   issued, pending_email, now, registering, content_vars>>

\* routers/opportunities.py: add_opportunity.  Title and date are the same in
\* every request, so the duplicate check compares user_id alone.  The row
\* is committed before the response is built with
\* OpportunityUserSchema.from_attributes, which pydantic models do not
\* have: the request ends as an unhandled 500 with the row stored.
add_opportunity(token, user_id, photo) ==
    \/ Rejected("add_opportunity", token)
    \/ /\ get_current_user(token).status = 200
       /\ IF \E op \in opportunities : op.user_id = user_id
          THEN /\ resp' = Response("add_opportunity", 400, "opportunity_exists",
                                   token, get_current_user(token).user_id)
               /\ UNCHANGED <<opportunities, next_opportunity_id>>
          ELSE IF photo = "not_image"
          THEN /\ resp' = Response("add_opportunity", 400, "invalid_image",
                                   token, get_current_user(token).user_id)
               /\ UNCHANGED <<opportunities, next_opportunity_id>>
          ELSE /\ next_opportunity_id <= MaxRows
               /\ opportunities' = opportunities \cup
                      {[id |-> next_opportunity_id, user_id |-> user_id]}
               /\ next_opportunity_id' = next_opportunity_id + 1
               /\ resp' = Response("add_opportunity", 500, "AttributeError",
                                   token, get_current_user(token).user_id)
       /\ UNCHANGED <<users, next_user_id, personal_information, revoked_tokens,
                      issued, pending_email, now, registering,
                      opportunity_histories, next_history_id, discussions,
                      donations>>

\* routers/opportunities.py: delete_opportunity.  The opportunity row is
\* deleted; the histories that name it are left as they are.
delete_opportunity(token, op_id) ==
    \/ Rejected("delete_opportunity", token)
    \/ /\ get_current_user(token).status = 200
       /\ IF ~\E op \in opportunities : op.id = op_id
          THEN /\ resp' = Response("delete_opportunity", 404, "not_found", token,
                                   get_current_user(token).user_id)
               /\ UNCHANGED opportunities
          ELSE /\ opportunities' = {op \in opportunities : op.id # op_id}
               /\ resp' = Response("delete_opportunity", 200, "", token,
                                   get_current_user(token).user_id)
       /\ UNCHANGED <<users, next_user_id, personal_information, revoked_tokens,
                      issued, pending_email, now, registering,
                      next_opportunity_id, opportunity_histories,
                      next_history_id, discussions, donations>>

\* routers/opportunity_histories.py: add_history.  The row is committed, and
\* then the response is built with OpportunityInfoSchema, a name the module
\* never imports: NameError, an unhandled 500 with the row stored.
add_history(token, opportunity_id, user_id) ==
    \/ Rejected("add_history", token)
    \/ /\ get_current_user(token).status = 200
       /\ IF ~\E user \in users : user.id = user_id
          THEN /\ resp' = Response("add_history", 400, "invalid_user_id", token,
                                   get_current_user(token).user_id)
               /\ UNCHANGED <<opportunity_histories, next_history_id>>
          ELSE IF ~\E op \in opportunities : op.id = opportunity_id
          THEN /\ resp' = Response("add_history", 400, "invalid_opportunity_id",
                                   token, get_current_user(token).user_id)
               /\ UNCHANGED <<opportunity_histories, next_history_id>>
          ELSE /\ next_history_id <= MaxPosts
               /\ opportunity_histories' = opportunity_histories \cup
                      {[id |-> next_history_id, opportunity_id |-> opportunity_id,
                        user_id |-> user_id]}
               /\ next_history_id' = next_history_id + 1
               /\ resp' = Response("add_history", 500, "NameError", token,
                                   get_current_user(token).user_id)
       /\ UNCHANGED <<users, next_user_id, personal_information, revoked_tokens,
                      issued, pending_email, now, registering, opportunities,
                      next_opportunity_id, discussions, donations>>

\* What get_history answers for a stored row.
get_history_result(hist) ==
    IF ~\E user \in users : user.id = hist.user_id
    THEN [status |-> 500, error |-> "user_referenced_not_found"]
    ELSE IF ~\E op \in opportunities : op.id = hist.opportunity_id
    THEN [status |-> 500, error |-> "opportunity_referenced_not_found"]
    ELSE [status |-> 500, error |-> "NameError"]

\* routers/opportunity_histories.py: get_history
get_history(token, history_id) ==
    \/ Rejected("get_history", token)
    \/ /\ get_current_user(token).status = 200
       /\ IF ~\E hist \in opportunity_histories : hist.id = history_id
          THEN resp' = Response("get_history", 404, "not_found", token,
                                get_current_user(token).user_id)
          ELSE \E hist \in opportunity_histories :
                  /\ hist.id = history_id
                  /\ resp' = Response("get_history",
                                      get_history_result(hist).status,
                                      get_history_result(hist).error, token,
                                      get_current_user(token).user_id)
       /\ UNCHANGED <<users, next_user_id, personal_information, revoked_tokens,
                      issued, pending_email, now, registering, content_vars>>

\* routers/opportunity_histories.py: list_histories with its default
\* parameters (page 1, newest first).  The loop over the rows stops at the
\* first one: a row whose user or opportunity is gone raises the 500
\* "Referenced user or opportunity not found", any other the NameError.
list_histories(token) ==
    \/ Rejected("list_histories", token)
    \/ /\ get_current_user(token).status = 200
       /\ IF opportunity_histories = {}
          THEN resp' = Response("list_histories", 200, "", token,
                                get_current_user(token).user_id)
          ELSE \E hist \in opportunity_histories :
                  /\ \A other \in opportunity_histories : other.id <= hist.id
                  /\ resp' = Response("list_histories", 500,
                         IF get_history_result(hist).error = "NameError"
                         THEN "NameError" ELSE "referenced_not_found",
                         token, get_current_user(token).user_id)
       /\ UNCHANGED <<users, next_user_id, personal_information, revoked_tokens,
                      issued, pending_email, now, registering, content_vars>>

\* routers/opportunity_histories.py: update_history
update_history(token, history_id, opportunity_id, user_id) ==
    \/ Rejected("update_history", token)
    \/ /\ get_current_user(token).status = 200
       /\ IF ~\E hist \in opportunity_histories : hist.id = history_id
          THEN /\ resp' = Response("update_history", 404, "not_found", token,
                                   get_current_user(token).user_id)
               /\ UNCHANGED opportunity_histories
          ELSE IF ~\E user \in users : user.id = user_id
          THEN /\ resp' = Response("update_history", 400, "invalid_user_id",
                                   token, get_current_user(token).user_id)
               /\ UNCHANGED opportunity_histories
          ELSE IF ~\E op \in opportunities : op.id = opportunity_id
          THEN /\ resp' = Response("update_history", 400,
                                   "invalid_opportunity_id", token,
                                   get_current_user(token).user_id)
               /\ UNCHANGED opportunity_histories
          ELSE /\ opportunity_histories' =
                      {hist \in opportunity_histories : hist.id # history_id}
                      \cup {[id |-> history_id,
                             opportunity_id |-> opportunity_id,
                             user_id |-> user_id]}
               /\ resp' = Response("update_history", 200, "", token,
                                   get_current_user(token).user_id)
       /\ UNCHANGED <<users, next_user_id, personal_information, revoked_tokens,
                      issued, pending_email, now, registering, opportunities,
                      next_opportunity_id, next_history_id, discussions,
                      donations>>

\* routers/opportunity_histories.py: delete_history
delete_history(token, history_id) ==
    \/ Rejected("delete_history", token)
    \/ /\ get_current_user(token).status = 200
       /\ IF ~\E hist \in opportunity_histories : hist.id = history_id
          THEN /\ resp' = Response("delete_history", 404, "not_found", token,
                                   get_current_user(token).user_id)
               /\ UNCHANGED opportunity_histories
          ELSE /\ opportunity_histories' =
                      {hist \in opportunity_histories : hist.id # history_id}
               /\ resp' = Response("delete_history", 200, "", token,
                                   get_current_user(token).user_id)
       /\ UNCHANGED <<users, next_user_id, personal_information, revoked_tokens,
                      issued, pending_email, now, registering, opportunities,
                      next_opportunity_id, next_history_id, discussions,
                      donations>>

\* Mutation of send_message: the author is the user_id of the request body.
send_message_payload_author(token, user_id) ==
    \/ Rejected("send_message", token)
    \/ /\ get_current_user(token).status = 200
       /\ Cardinality(discussions) < MaxPosts
       /\ discussions' = discussions \cup
              {[id |-> Cardinality(discussions) + 1, user_id |-> user_id]}
       /\ resp' = Response("send_message", 201, "", token,
                           get_current_user(token).user_id)
       /\ UNCHANGED <<users, next_user_id, personal_information, revoked_tokens,
                      issued, pending_email, now, registering, opportunities,
                      next_opportunity_id, opportunity_histories,
                      next_history_id, donations>>

\* routers/discussions.py: send_message.  user_id is a field the request
\* body may carry; CreateDiscussionSchema has no such field and drops it.
\* Messages are never deleted, so the next id is the row count plus one.
send_message(token, user_id) ==
    \/ Rejected("send_message", token)
    \/ /\ get_current_user(token).status = 200
       /\ Cardinality(discussions) < MaxPosts
       /\ discussions' = discussions \cup
              {[id |-> Cardinality(discussions) + 1,
                user_id |-> get_current_user(token).user_id]}
       /\ resp' = Response("send_message", 201, "", token,
                           get_current_user(token).user_id)
       /\ UNCHANGED <<users, next_user_id, personal_information, revoked_tokens,
                      issued, pending_email, now, registering, opportunities,
                      next_opportunity_id, opportunity_histories,
                      next_history_id, donations>>

\* routers/donations.py: create_donation, with a user_id in the request body
\* that CreateDonationSchema drops.
create_donation(token, user_id) ==
    \/ Rejected("create_donation", token)
    \/ /\ get_current_user(token).status = 200
       /\ Cardinality(donations) < MaxPosts
       /\ donations' = donations \cup
              {[id |-> Cardinality(donations) + 1,
                user_id |-> get_current_user(token).user_id]}
       /\ resp' = Response("create_donation", 201, "", token,
                           get_current_user(token).user_id)
       /\ UNCHANGED <<users, next_user_id, personal_information, revoked_tokens,
                      issued, pending_email, now, registering, opportunities,
                      next_opportunity_id, opportunity_histories,
                      next_history_id, discussions>>

----------------------------------------------------------------------------
(* The clock *)

Tick ==
    /\ now + TickMinutes <= MaxNow
    /\ now' = now + TickMinutes
    /\ UNCHANGED <<users, next_user_id, personal_information, revoked_tokens,
                   issued, pending_email, resp>>

----------------------------------------------------------------------------
(* The state the process starts in.  The MySQL database outlives the        *)
(* process, and tokens are stateless: what an earlier run of the service    *)
(* committed and signed is there at start.  One registered user, one token  *)
(* of that user issued at the start time, and a revoked_tokens table that   *)
(* holds that token's jti or not.                                           *)

FirstUser ==
    [id |-> 1, email |-> "e1", phone_number |-> "p1",
     password |-> pwd_hash("pw1"), student_id |-> 1, remember_token |-> None,
     created_at |-> 0]

FirstToken == create_access_token(Str(FirstUser.id), 1, 0)

\* The bearer tokens a client may present: the issued ones and a tampered one.
Tokens == issued \cup {Tampered(FirstToken)}

----------------------------------------------------------------------------
(* routers/faculties.py: a router behind Depends(get_current_user) *)

MaxFaculties == 2
FacultyIds == 1..MaxFaculties
FacultyNames == {"n1", "n2"}

\* What a client sends as its Authorization header: a bearer token, or
\* nothing.
Bearers == Tokens \cup {NoToken}

\* oauth2_scheme, the OAuth2PasswordBearer get_current_user depends on: a
\* request without a bearer token is answered 401 "Not authenticated" before
\* get_current_user runs.
oauth2_scheme(token) ==
    IF token = NoToken THEN Unauthorized("not_authenticated")
    ELSE get_current_user(token)

\* The router-level dependency of faculties.py rejecting the request.
FacultyRejected(op, token) ==
    LET current == oauth2_scheme(token) IN
    /\ current.status # 200
    /\ resp' = Response(op, current.status, current.error, token, 0)
    /\ UNCHANGED <<users, next_user_id, personal_information, revoked_tokens,
                   issued, pending_email, now, registering, content_vars,
                   faculty_vars>>

\* Mutation of add_faculty: the duplicate check is left out.
add_faculty_unchecked(token, name) ==
    \/ FacultyRejected("add_faculty", token)
    \/ /\ oauth2_scheme(token).status = 200
       /\ next_faculty_id <= MaxFaculties
       /\ faculties' = faculties \cup {[id |-> next_faculty_id, name |-> name]}
       /\ next_faculty_id' = next_faculty_id + 1
       /\ resp' = Response("add_faculty", 201, "", token,
                           oauth2_scheme(token).user_id)
       /\ UNCHANGED <<users, next_user_id, personal_information, revoked_tokens,
                      issued, pending_email, now, registering, content_vars>>

\* routers/faculties.py: add_faculty
add_faculty(token, name) ==
    \/ FacultyRejected("add_faculty", token)
    \/ /\ oauth2_scheme(token).status = 200
       /\ IF \E fac \in faculties : fac.name = name
          THEN /\ resp' = Response("add_faculty", 400, "faculty_exists", token,
                                   oauth2_scheme(token).user_id)
               /\ UNCHANGED faculty_vars
          ELSE /\ next_faculty_id <= MaxFaculties
               /\ faculties' = faculties \cup
                      {[id |-> next_faculty_id, name |-> name]}
               /\ next_faculty_id' = next_faculty_id + 1
               /\ resp' = Response("add_faculty", 201, "", token,
                                   oauth2_scheme(token).user_id)
       /\ UNCHANGED <<users, next_user_id, personal_information, revoked_tokens,
                      issued, pending_email, now, registering, content_vars>>

\* routers/faculties.py: list_faculties with its default page
list_faculties(token) ==
    \/ FacultyRejected("list_faculties", token)
    \/ /\ oauth2_scheme(token).status = 200
       /\ resp' = Response("list_faculties", 200, "", token,
                           oauth2_scheme(token).user_id)
       /\ UNCHANGED <<users, next_user_id, personal_information, revoked_tokens,
                      issued, pending_email, now, registering, content_vars,
                      faculty_vars>>

\* routers/faculties.py: get_faculty
get_faculty(token, faculty_id) ==
    \/ FacultyRejected("get_faculty", token)
    \/ /\ oauth2_scheme(token).status = 200
       /\ IF ~\E fac \in faculties : fac.id = faculty_id
          THEN resp' = Response("get_faculty", 404, "faculty_not_found", token,
                                oauth2_scheme(token).user_id)
          ELSE resp' = Response("get_faculty", 200, "", token,
                                oauth2_scheme(token).user_id)
       /\ UNCHANGED <<users, next_user_id, personal_information, revoked_tokens,
                      issued, pending_email, now, registering, content_vars,
                      faculty_vars>>

\* routers/faculties.py: update_faculty
update_faculty(token, faculty_id, name) ==
    \/ FacultyRejected("update_faculty", token)
    \/ /\ oauth2_scheme(token).status = 200
       /\ IF ~\E fac \in faculties : fac.id = faculty_id
          THEN /\ resp' = Response("update_faculty", 404, "faculty_not_found",
                                   token, oauth2_scheme(token).user_id)
               /\ UNCHANGED faculties
          ELSE IF \E fac \in faculties : fac.id # faculty_id /\ fac.name = name
          THEN /\ resp' = Response("update_faculty", 400, "faculty_exists",
                                   token, oauth2_scheme(token).user_id)
               /\ UNCHANGED faculties
          ELSE /\ faculties' = {fac \in faculties : fac.id # faculty_id}
                                   \cup {[id |-> faculty_id, name |-> name]}
               /\ resp' = Response("update_faculty", 200, "", token,
                                   oauth2_scheme(token).user_id)
       /\ UNCHANGED <<users, next_user_id, personal_information, revoked_tokens,
                      issued, pending_email, now, registering, content_vars,
                      next_faculty_id>>

\* routers/faculties.py: delete_faculty
delete_faculty(token, faculty_id) ==
    \/ FacultyRejected("delete_faculty", token)
    \/ /\ oauth2_scheme(token).status = 200
       /\ IF ~\E fac \in faculties : fac.id = faculty_id
          THEN /\ resp' = Response("delete_faculty", 404, "faculty_not_found",
                                   token, oauth2_scheme(token).user_id)
               /\ UNCHANGED faculties
          ELSE /\ faculties' = {fac \in faculties : fac.id # faculty_id}
               /\ resp' = Response("delete_faculty", 200, "", token,
                                   oauth2_scheme(token).user_id)
       /\ UNCHANGED <<users, next_user_id, personal_information, revoked_tokens,
                      issued, pending_email, now, registering, content_vars,
                      next_faculty_id>>

Init ==
    /\ users = {FirstUser}
    /\ next_user_id = FirstUser.id + 1
    /\ personal_information = {}
    /\ issued = {FirstToken}
    /\ revoked_tokens \in SUBSET {FirstToken.jti}
    /\ pending_email = {}
    /\ now = 0
    /\ resp = Idle
    /\ registering = {}
    /\ opportunities = {}
    /\ next_opportunity_id = 1
    /\ opportunity_histories = {}
    /\ next_history_id = 1
    /\ discussions = {}
    /\ donations = {}
    /\ faculties = {}
    /\ next_faculty_id = 1

\* The requests of the auth router, each handled in one step.
Next ==
    \/ /\ \E data \in LoginBodies : login(data.username, data.password)
       /\ UNCHANGED <<registering, content_vars, faculty_vars>>
    \/ /\ \E token \in Tokens : verify_token(token)
       /\ UNCHANGED <<registering, content_vars, faculty_vars>>
    \/ /\ \E token \in Tokens : logout(token)
       /\ UNCHANGED <<registering, content_vars, faculty_vars>>
    \/ /\ \E data \in RegistrationBodies, password \in NewPasswords :
              register_user(data.student_id, data.email, data.phone_number,
                            password)
       /\ UNCHANGED <<registering, content_vars, faculty_vars>>
    \/ /\ \E data \in RegistrationBodies, otp \in SentOtps :
              initiate_registration(data.student_id, data.email,
                                    data.phone_number, otp)
       /\ UNCHANGED <<registering, content_vars, faculty_vars>>
    \/ /\ \E id \in pending_email : send_otp_email_ok(id)
       /\ UNCHANGED <<registering, content_vars, faculty_vars>>
    \/ /\ \E id \in pending_email : send_otp_email_failed(id)
       /\ UNCHANGED <<registering, content_vars, faculty_vars>>
    \/ /\ \E student_id \in StudentIds, otp \in Otps, password \in NewPasswords :
              complete_registration(student_id, otp, password)
       /\ UNCHANGED <<registering, content_vars, faculty_vars>>
    \/ /\ \E token \in Tokens, data \in ProfileBodies :
              update_profile(token, data.email, data.phone_number, data.bio,
                             data.address, data.gender)
       /\ UNCHANGED <<registering, content_vars, faculty_vars>>
    \/ /\ Tick
       /\ UNCHANGED <<registering, content_vars, faculty_vars>>

Spec == Init /\ [][Next]_vars

\* The registration handlers, with overlapping requests.
RegistrationNext ==
    \/ /\ \E data \in RegistrationBodies, password \in NewPasswords :
              register_user_check(data.student_id, data.email, data.phone_number,
                                  password)
       /\ UNCHANGED faculty_vars
    \/ /\ \E request \in registering : register_user_insert(request)
       /\ UNCHANGED faculty_vars
    \/ /\ \E data \in RegistrationBodies :
              initiate_registration_check(data.student_id, data.email,
                                          data.phone_number)
       /\ UNCHANGED faculty_vars
    \/ /\ \E request \in registering, otp \in Otps :
              initiate_registration_insert(request, otp)
       /\ UNCHANGED faculty_vars
    \/ /\ \E id \in pending_email : send_otp_email_ok(id)
       /\ UNCHANGED <<registering, content_vars, faculty_vars>>
    \/ /\ \E id \in pending_email : send_otp_email_failed(id)
       /\ UNCHANGED <<registering, content_vars, faculty_vars>>
    \/ /\ \E student_id \in StudentIds, otp \in Otps, password \in NewPasswords :
              complete_registration(student_id, otp, password)
       /\ UNCHANGED <<registering, content_vars, faculty_vars>>
    \/ /\ Tick
       /\ UNCHANGED <<registering, content_vars, faculty_vars>>

RegistrationSpec == Init /\ [][RegistrationNext]_vars

\* The routers of opportunities and of their histories, with the requests of
\* the auth router that add and remove users.
ContentNext ==
    \/ /\ \E token \in Tokens, user_id \in PayloadUserIds, photo \in Photos :
              add_opportunity(token, user_id, photo)
       /\ UNCHANGED faculty_vars
    \/ /\ \E token \in Tokens, op_id \in OpportunityIds : delete_opportunity(token, op_id)
       /\ UNCHANGED faculty_vars
    \/ /\ \E token \in Tokens, opportunity_id \in OpportunityIds, user_id \in PayloadUserIds :
              add_history(token, opportunity_id, user_id)
       /\ UNCHANGED faculty_vars
    \/ /\ \E token \in Tokens, history_id \in HistoryIds : get_history(token, history_id)
       /\ UNCHANGED faculty_vars
    \/ /\ \E token \in Tokens : list_histories(token)
       /\ UNCHANGED faculty_vars
    \/ /\ \E token \in Tokens, history_id \in HistoryIds, opportunity_id \in OpportunityIds,
             user_id \in PayloadUserIds :
              update_history(token, history_id, opportunity_id, user_id)
       /\ UNCHANGED faculty_vars
    \/ /\ \E token \in Tokens, history_id \in HistoryIds : delete_history(token, history_id)
       /\ UNCHANGED faculty_vars
    \/ /\ \E data \in {RegistrationBody(1, "e1", "p1"),
                        RegistrationBody(2, "e2", "p2")}, otp \in SentOtps :
              initiate_registration(data.student_id, data.email,
                                    data.phone_number, otp)
       /\ UNCHANGED <<registering, content_vars, faculty_vars>>
    \/ /\ \E id \in pending_email : send_otp_email_ok(id)
       /\ UNCHANGED <<registering, content_vars, faculty_vars>>
    \/ /\ \E id \in pending_email : send_otp_email_failed(id)
       /\ UNCHANGED <<registering, content_vars, faculty_vars>>

ContentSpec == Init /\ [][ContentNext]_vars

\* The routers of discussions and donations, with the requests of the auth
\* router that add users, issue tokens and let them expire.
PostingNext ==
    \/ /\ \E token \in Tokens, user_id \in PayloadUserIds : send_message(token, user_id)
       /\ UNCHANGED faculty_vars
    \/ /\ \E token \in Tokens, user_id \in PayloadUserIds :
              create_donation(token, user_id)
       /\ UNCHANGED faculty_vars
    \/ /\ \E data \in LoginBodies : login(data.username, data.password)
       /\ UNCHANGED <<registering, content_vars, faculty_vars>>
    \/ /\ \E data \in RegistrationBodies, password \in NewPasswords :
              register_user(data.student_id, data.email, data.phone_number,
                            password)
       /\ UNCHANGED <<registering, content_vars, faculty_vars>>
    \/ /\ Tick
       /\ UNCHANGED <<registering, content_vars, faculty_vars>>

PostingSpec == Init /\ [][PostingNext]_vars

\* The faculties router, with the clock that lets tokens expire and the
\* login that issues further ones.
FacultyNext ==
    \/ \E token \in Bearers, name \in FacultyNames : add_faculty(token, name)
    \/ \E token \in Bearers : list_faculties(token)
    \/ \E token \in Bearers, faculty_id \in FacultyIds :
           get_faculty(token, faculty_id)
    \/ \E token \in Bearers, faculty_id \in FacultyIds, name \in FacultyNames :
           update_faculty(token, faculty_id, name)
    \/ \E token \in Bearers, faculty_id \in FacultyIds :
           delete_faculty(token, faculty_id)
    \/ /\ \E data \in LoginBodies : login(data.username, data.password)
       /\ UNCHANGED <<registering, content_vars, faculty_vars>>
    \/ /\ Tick
       /\ UNCHANGED <<registering, content_vars, faculty_vars>>

FacultySpec == Init /\ [][FacultyNext]_vars

\* The profile endpoint of the auth router, with the requests that add users,
\* issue their tokens and let them expire.
ProfileNext ==
    \/ /\ \E token \in Tokens, data \in ProfileBodies :
              update_profile(token, data.email, data.phone_number, data.bio,
                             data.address, data.gender)
       /\ UNCHANGED <<registering, content_vars, faculty_vars>>
    \/ /\ \E data \in LoginBodies : login(data.username, data.password)
       /\ UNCHANGED <<registering, content_vars, faculty_vars>>
    \/ /\ \E data \in RegistrationBodies, password \in NewPasswords :
              register_user(data.student_id, data.email, data.phone_number,
                            password)
       /\ UNCHANGED <<registering, content_vars, faculty_vars>>
    \/ /\ Tick
       /\ UNCHANGED <<registering, content_vars, faculty_vars>>

ProfileSpec == Init /\ [][ProfileNext]_vars

\* The two-step registration of the auth router and the login a user may try
\* at any point of it.
PendingNext ==
    \/ /\ \E data \in RegistrationBodies, otp \in SentOtps :
              initiate_registration(data.student_id, data.email,
                                    data.phone_number, otp)
       /\ UNCHANGED <<registering, content_vars, faculty_vars>>
    \/ /\ \E id \in pending_email : send_otp_email_ok(id)
       /\ UNCHANGED <<registering, content_vars, faculty_vars>>
    \/ /\ \E id \in pending_email : send_otp_email_failed(id)
       /\ UNCHANGED <<registering, content_vars, faculty_vars>>
    \/ /\ \E student_id \in StudentIds, otp \in Otps, password \in NewPasswords :
              complete_registration(student_id, otp, password)
       /\ UNCHANGED <<registering, content_vars, faculty_vars>>
    \/ /\ \E data \in LoginBodies : login(data.username, data.password)
       /\ UNCHANGED <<registering, content_vars, faculty_vars>>
    \/ /\ Tick
       /\ UNCHANGED <<registering, content_vars, faculty_vars>>

PendingSpec == Init /\ [][PendingNext]_vars

----------------------------------------------------------------------------
(* Properties *)

\* C1: in every reachable state a token whose jti is in the revocation store
\* is rejected by get_current_user with a 401 (token_revoked whenever its
\* signature verifies and it is not expired) and never resolves to a user;
\* logout and update_profile, which depend on it, answer 401 as well.
C1_RevokedNeverAuthenticates ==
    \A token \in Tokens :
        token.jti \in revoked_tokens =>
            /\ get_current_user(token).status = 401
            /\ get_current_user(token).user_id = 0
            /\ (SignatureValid(token) /\ ~Expired(token, now))
                   => get_current_user(token).error = "token_revoked"
            /\ logout_result(token).status = 401
            /\ \A r \in update_profile_result(token, "e2", None, "b1", "a1", "True") :
                   r.status = 401 /\ r.users = users

\* A revoked token was presented after a later login and answered token_revoked.
C1_Witness ==
    /\ resp.op = "verify_token"
    /\ resp.status = 401
    /\ resp.error = "token_revoked"
    /\ resp.token.jti \in revoked_tokens
    /\ Cardinality(issued) > 1

\* C2: a logout presented with a valid token answers 200 and leaves the
\* token's jti in the revocation store, so that the token is rejected from
\* then on.
C2_LogoutRevokes ==
    (resp.op = "logout" /\ resp.status # 401) =>
        /\ resp.status = 200
        /\ resp.token.jti \in revoked_tokens
        /\ get_current_user(resp.token).status = 401

\* C3: validation succeeds if and only if the signature is valid, the current
\* time is before the expiry and the jti is not in the revocation store.
C3_ValidIff ==
    \A token \in Tokens :
        (get_current_user(token).status = 200)
            <=> (/\ SignatureValid(token)
                 /\ now < token.exp
                 /\ token.jti \notin revoked_tokens)

\* C4: for every (identifier, password) where the identifier is a stored
\* user's email or phone number and the password matches that user's hash,
\* login answers 200 with a token whose subject identifies that user.
C4_LoginSucceeds ==
    \A username \in Usernames \ {""}, password \in Passwords :
        \A user \in users :
            (/\ user.email = username \/ user.phone_number = username
             /\ verify_password(password, user.password) = "True")
            => \A r \in login_result(username, password) :
                   /\ r.status = 200
                   /\ r.user_id = user.id
                   /\ IntOf(r.token.sub) = user.id

\* C5: a login whose identifier matches no stored user, or whose password
\* does not match the stored hash, answers 401 invalid_credentials and issues
\* no token.
C5_BadCredentialsRejected ==
    \A username \in Usernames \ {""}, password \in Passwords :
        (\A user \in LoginMatches(username) :
             verify_password(password, user.password) # "True")
        => \A r \in login_result(username, password) :
               /\ r.status = 401
               /\ r.error = "invalid_credentials"
               /\ r.token = NoToken

\* C6: round trip: a token that login has just issued for a user validates,
\* and validation recovers the subject it was issued for and resolves it to
\* that user; every issued token that validates resolves to the user whose id
\* its subject writes.
C6_RoundTrip ==
    /\ \A username \in Usernames, password \in Passwords :
           \A r \in login_result(username, password) :
               r.status = 200 =>
                   /\ get_current_user(r.token).status = 200
                   /\ get_current_user(r.token).user_id = r.user_id
                   /\ Str(get_current_user(r.token).user_id) = r.token.sub
    /\ \A token \in issued :
           get_current_user(token).status = 200 =>
               /\ Str(get_current_user(token).user_id) = token.sub
               /\ \E user \in users : Str(user.id) = token.sub

\* A token issued by a login of this run was validated and resolved to the
\* user it was issued for.
C6_Witness ==
    /\ resp.op = "verify_token"
    /\ resp.status = 200
    /\ resp.token \in issued \ {FirstToken}
    /\ Str(resp.user_id) = resp.token.sub

\* C7: expiry is exclusive: validation succeeds only when now < expiry, so a
\* token presented exactly at its expiry time is rejected.
C7_ExpiryExclusive ==
    \A token \in Tokens :
        get_current_user(token).status = 200 => now < token.exp

\* C8: after two logout requests for the same token, the first of which
\* passed validation, the token's jti is in the revocation store and the
\* token is invalid.
C8_RevokeTwice ==
    (resp.op = "logout" /\ resp.repeat) =>
        /\ resp.token.jti \in revoked_tokens
        /\ get_current_user(resp.token).status # 200

\* C9: the revocation store is append-only: no step removes an entry.
C9_AppendOnly == [][revoked_tokens \subseteq revoked_tokens']_vars

\* A logout passed validation and was handled while the store held an entry.
C9_Witness ==
    /\ revoked_tokens # {}
    /\ resp.op = "logout"
    /\ resp.status # 401

\* C10: Expired is terminal: once the decoding of an issued token fails (its
\* expiry has passed) and its validation answers invalid_token, no later
\* validation of that token succeeds, whatever step is taken: in every state
\* a token whose decoding fails is answered invalid_token, and after every
\* step the token is the same and its decoding fails still (the decoding
\* depends on the token and the clock alone, so only a step that moves the
\* clock has anything to show).
C10_ExpiredIsTerminal ==
    /\ [](\A token \in issued :
              ~decode_access_token(token, now).ok
                  => /\ get_current_user(token).status = 401
                     /\ get_current_user(token).error = "invalid_token")
    /\ [][/\ issued \subseteq issued'
          /\ now' # now
                 => \A token \in issued :
                        ~decode_access_token(token, now).ok
                            => ~decode_access_token(token, now').ok]_vars

\* An issued token, not revoked and of an existing user, was rejected as expired.
C10_Witness ==
    /\ resp.op = "verify_token"
    /\ resp.error = "invalid_token"
    /\ resp.token \in issued
    /\ resp.token.exp < now
    /\ resp.token.jti \notin revoked_tokens
    /\ \E user \in users : Str(user.id) = resp.token.sub

\* C11: every failed validation answers 401 with one of invalid_token,
\* token_revoked, user_not_found, decided in that order: a bad signature, an
\* expired token or a missing subject gives invalid_token; otherwise a revoked
\* jti gives token_revoked; otherwise a subject without a user row gives
\* user_not_found; otherwise the validation succeeds.
C11_FailureCodes ==
    \A token \in Tokens :
        LET r == get_current_user(token)
            decodes == /\ SignatureValid(token)
                       /\ ~Expired(token, now)
                       /\ token.sub # None
            revoked == token.jti \in revoked_tokens
            exists == \E user \in users : Str(user.id) = token.sub
        IN /\ r.status \in {200, 401}
           /\ r.status = 401 <=> r.error \in {"invalid_token", "token_revoked",
                                               "user_not_found"}
           /\ ~decodes => r.error = "invalid_token"
           /\ (decodes /\ revoked) => r.error = "token_revoked"
           /\ (decodes /\ ~revoked /\ ~exists) => r.error = "user_not_found"
           /\ (decodes /\ ~revoked /\ exists) => r.status = 200

\* A properly signed, unexpired, unrevoked token of a user whose row is gone
\* was answered user_not_found.
C11_Witness ==
    /\ resp.op = "verify_token"
    /\ resp.status = 401
    /\ resp.error = "user_not_found"
    /\ resp.token \in issued
    /\ ~Expired(resp.token, now)

\* C12: issuing a token persists nothing: a login step leaves the users,
\* personal_information and revoked_tokens tables as they were, and the token
\* of a successful login validates right away, with no row recording it.
\* (A step that writes a response of login is a step of login.)
C12_IssuingPersistsNothing ==
    [][(resp'.op = "login" /\ resp' # resp) =>
           /\ \E data \in LoginBodies : login(data.username, data.password)
           /\ users' = users
           /\ personal_information' = personal_information
           /\ revoked_tokens' = revoked_tokens
           /\ resp'.status = 200 => resp'.token \in issued' \ issued
           /\ \A token \in issued' \ issued :
                  /\ token.jti \notin revoked_tokens'
                  /\ get_current_user(token)'.status = 200]_vars

\* A user registered in this run logged in and was issued a token.
C12_Witness ==
    /\ resp.op = "login"
    /\ resp.status = 200
    /\ resp.token \in issued \ {FirstToken}
    /\ resp.user_id # FirstUser.id
    /\ get_current_user(resp.token).status = 200

\* C13: logins of one user are independent: the tokens issued carry distinct
\* jtis, a revoked token of the user does not keep another token of the same
\* user from validating, and a logout with one token leaves the validity of
\* every other token of that user as it was.
\* (A step that writes a response of logout is a step of logout, with the
\* token of the response.)
C13_IndependentLogins ==
    /\ [](/\ \A t1, t2 \in issued : t1 # t2 => t1.jti # t2.jti
          /\ \A t1 \in issued :
                 t1.jti \in revoked_tokens =>
                     \A t2 \in issued :
                         (/\ t1.sub = t2.sub
                          /\ t2.jti \notin revoked_tokens
                          /\ ~Expired(t2, now)
                          /\ \E user \in users : Str(user.id) = t2.sub)
                         => get_current_user(t2).status = 200)
    /\ [][(resp'.op = "logout" /\ resp' # resp) =>
              /\ logout(resp'.token)
              /\ \A other \in issued \ {resp'.token} :
                     other.sub = resp'.token.sub =>
                         get_current_user(other)'.status
                             = get_current_user(other).status]_vars

\* A user holds two valid tokens; a logout with one of them was handled, and
\* the other one still validates.
C13_Witness ==
    /\ resp.op = "logout"
    /\ resp.status # 401
    /\ resp.token \in issued
    /\ \E other \in issued \ {resp.token} :
           /\ other.sub = resp.token.sub
           /\ other.jti # resp.token.jti
           /\ get_current_user(other).status = 200

\* C14: revocations of distinct tokens do not lose an insert: when a logout
\* with a valid token T1 has been handled and a logout with another valid
\* token T2 completes, both jtis are in the revocation store and both tokens
\* are rejected.  (logout touches the database only in its final insert, so
\* every interleaving of the two requests ends in the state of this order.)
C14_NoLostRevocation ==
    [][\A first, second \in Tokens :
           (/\ first # second
            /\ resp.op = "logout"
            /\ resp.token = first
            /\ resp.status # 401
            /\ get_current_user(second).status = 200
            /\ logout(second))
           => /\ {first.jti, second.jti} \subseteq revoked_tokens'
              /\ get_current_user(first)'.status = 401
              /\ get_current_user(second)'.status = 401]_vars

\* C15: every validation looks the revocation store up afresh: once a
\* token's jti is stored, the token is rejected after every step, and every
\* request that presents it (verify_token, logout, update_profile) is
\* answered 401 and changes no table, whatever was answered before.
\* (A step that writes a response of verify_token, logout or update_profile
\* is a step of that handler, with the token of the response.)
C15_FreshLookup ==
    /\ [](\A token \in Tokens :
              token.jti \in revoked_tokens => get_current_user(token).status = 401)
    /\ [][/\ revoked_tokens \subseteq revoked_tokens'
          /\ (/\ resp' # resp
              /\ resp'.op \in {"verify_token", "logout", "update_profile"}
              /\ resp'.token.jti \in revoked_tokens)
             => /\ resp'.token \in Tokens
                /\ resp'.status = 401
                /\ users' = users
                /\ personal_information' = personal_information]_vars

\* A revoked token was presented to update_profile while the same user held
\* another token that validates, and was answered token_revoked.
C15_Witness ==
    /\ resp.op = "update_profile"
    /\ resp.status = 401
    /\ resp.error = "token_revoked"
    /\ resp.token.jti \in revoked_tokens
    /\ \E other \in issued :
           /\ other.sub = resp.token.sub
           /\ get_current_user(other).status = 200

----------------------------------------------------------------------------
(* C16: a successful registration always leaves at most one user per        *)
(* e-mail address and at most one user per student id in the users table,  *)
(* overlapping registration requests included.                             *)
C16_OneUserPerEmailAndStudent ==
    \A u, v \in users :
        (u.email = v.email \/ u.student_id = v.student_id) => u.id = v.id

----------------------------------------------------------------------------
(* C17: every opportunity_histories row references a user and an           *)
(* opportunity that exist, so list_histories and get_history never answer  *)
(* with the 500 "referenced ... not found".                                *)
C17_ReferentialIntegrity ==
    /\ \A hist \in opportunity_histories :
          /\ \E user \in users : user.id = hist.user_id
          /\ \E op \in opportunities : op.id = hist.opportunity_id
    /\ resp.error \notin {"referenced_not_found", "user_referenced_not_found",
                          "opportunity_referenced_not_found"}

----------------------------------------------------------------------------
(* C18: every discussion message and every donation that send_message or   *)
(* create_donation stores carries the id of the user authenticated by the  *)
(* request's token, whatever user_id the request body names; a request     *)
(* whose token does not validate stores nothing.  (Only send_message adds  *)
(* to discussions and only create_donation to donations, and the response  *)
(* carries the token of the request.)                                      *)
C18_AuthorIsAuthenticatedUser ==
    [][/\ discussions' # discussions
          => /\ resp'.op = "send_message"
             /\ \E user_id \in PayloadUserIds : send_message(resp'.token, user_id)
             /\ get_current_user(resp'.token).status = 200
             /\ \A row \in discussions' \ discussions :
                    row.user_id = get_current_user(resp'.token).user_id
       /\ donations' # donations
          => /\ resp'.op = "create_donation"
             /\ \E user_id \in PayloadUserIds :
                    create_donation(resp'.token, user_id)
             /\ get_current_user(resp'.token).status = 200
             /\ \A row \in donations' \ donations :
                    row.user_id = get_current_user(resp'.token).user_id
      ]_vars

\* A message is stored under the first user and a donation under a second,
\* each the user authenticated by the token of its request.
C18_Witness ==
    /\ resp.op = "create_donation"
    /\ resp.status = 201
    /\ resp.user_id # FirstUser.id
    /\ resp.token.sub = Str(resp.user_id)
    /\ \E row \in discussions : row.user_id = FirstUser.id
    /\ \E row \in donations : row.user_id = resp.user_id

----------------------------------------------------------------------------
(* C19: complete_registration sets a password only for a user whose        *)
(* student_id and stored OTP both match the request, and clears the OTP on *)
(* success: once it has answered 201, no row matches that student_id and   *)
(* OTP any more, so the same request made again answers invalid_otp and    *)
(* changes no password.                                                    *)
C19_OtpSingleUse ==
    [][\A student_id \in StudentIds, otp \in Otps, password \in NewPasswords :
          (/\ resp'.op = "complete_registration"
           /\ complete_registration(student_id, otp, password))
          => /\ resp'.status = 201
                => /\ \E user \in OtpMatches(student_id, otp) :
                        /\ user.id = resp'.user_id
                        /\ users' = (users \ {user}) \cup
                               {[user EXCEPT !.password = pwd_hash(password),
                                             !.remember_token = None]}
                   /\ OtpMatches(student_id, otp)' = {}
             /\ resp'.status # 201
                => /\ OtpMatches(student_id, otp) = {}
                   /\ resp'.error = "invalid_otp"
                   /\ users' = users
      ]_vars

----------------------------------------------------------------------------
(* C20: a registration OTP expires 15 minutes after it is issued:          *)
(* complete_registration answers 201 only when the matching row, inserted  *)
(* with its OTP by initiate_registration, is at most 15 minutes old.       *)
C20_OtpExpires ==
    [][\A student_id \in StudentIds, otp \in Otps, password \in NewPasswords :
          (/\ resp'.op = "complete_registration"
           /\ resp'.status = 201
           /\ complete_registration(student_id, otp, password))
          => \E user \in OtpMatches(student_id, otp) :
                /\ user.id = resp'.user_id
                /\ now <= user.created_at + OTP_EXPIRE_MINUTES
      ]_vars

----------------------------------------------------------------------------
(* C21: update_profile upserts personal information: a user without a row  *)
(* gets one exactly when the request supplies both bio and address; a user *)
(* with a row has it updated, every field the request omits keeping its    *)
(* value; and the user never has more than one row.                        *)
C21_Upsert ==
    [][\A data \in ProfileBodies :
          (/\ resp'.op = "update_profile"
           /\ resp'.status # 401
           /\ update_profile(resp'.token, data.email, data.phone_number,
                             data.bio, data.address, data.gender))
          => LET before == {pi \in personal_information :
                               pi.user_id = resp'.user_id}
                 after == {pi \in personal_information' :
                              pi.user_id = resp'.user_id}
             IN /\ Cardinality(after) <= 1
                /\ before = {}
                   => IF data.bio # None /\ data.address # None
                      THEN \E pi \in after : /\ pi.bio = data.bio
                                             /\ pi.address = data.address
                      ELSE after = {}
                /\ \A old \in before :
                      \E new \in after :
                         /\ new.bio = IF data.bio # None THEN data.bio
                                      ELSE old.bio
                         /\ new.address = IF data.address # None
                                          THEN data.address ELSE old.address
                         /\ new.gender = IF data.gender # None
                                         THEN data.gender ELSE old.gender
      ]_vars


(* C22: faculty names stay unique.  In every reachable state no two rows of
   faculties have the same name, and an authenticated add_faculty whose name
   is already stored, or update_faculty of an existing row to a name another
   row holds, is answered 400 faculty_exists and leaves the table as it
   was. *)
C22_FacultyNamesUnique ==
    /\ [](\A a, b \in faculties : a.name = b.name => a.id = b.id)
    /\ [][faculties' # faculties => resp'.error # "faculty_exists"]_vars
    /\ [][resp' # resp /\ resp'.op \in {"add_faculty", "update_faculty"} =>
            \A name \in FacultyNames :
                /\ (/\ oauth2_scheme(resp'.token).status = 200
                    /\ \E fac \in faculties : fac.name = name
                    /\ add_faculty(resp'.token, name))
                   => /\ resp'.status = 400
                      /\ resp'.error = "faculty_exists"
                      /\ faculties' = faculties
                /\ \A faculty_id \in FacultyIds :
                       (/\ oauth2_scheme(resp'.token).status = 200
                        /\ \E fac \in faculties : fac.id = faculty_id
                        /\ \E fac \in faculties :
                               fac.id # faculty_id /\ fac.name = name
                        /\ update_faculty(resp'.token, faculty_id, name))
                       => /\ resp'.status = 400
                          /\ resp'.error = "faculty_exists"
                          /\ faculties' = faculties
         ]_vars

\* An update was refused because another of the two stored faculties holds
\* the name.
C22_Witness ==
    /\ resp.op = "update_faculty"
    /\ resp.status = 400
    /\ resp.error = "faculty_exists"
    /\ Cardinality(faculties) = 2


(* C23: the protected routers require a valid token.  Whenever an endpoint of
   a router declared with Depends(get_current_user) answers a request whose
   token is missing, invalid (signature or subject), expired (the time has
   reached its expiry) or revoked, the answer is 401 and no row of any table
   has changed. *)
C23_ProtectedRequireValidToken ==
    [][(/\ resp' # resp
        /\ resp'.op \in {"add_faculty", "list_faculties", "get_faculty",
                         "update_faculty", "delete_faculty",
                         "add_opportunity", "delete_opportunity",
                         "add_history", "get_history", "list_histories",
                         "update_history", "delete_history", "send_message",
                         "create_donation"}
        /\ \/ resp'.token = NoToken
           \/ ~SignatureValid(resp'.token)
           \/ resp'.token.sub = None
           \/ now >= resp'.token.exp
           \/ resp'.token.jti \in revoked_tokens)
       => /\ resp'.status = 401
          /\ UNCHANGED <<users, personal_information, revoked_tokens,
                         content_vars, faculty_vars>>
      ]_vars


(* C24: a failed update_profile changes nothing.  An update_profile answered
   422 carries the code missing_fields and leaves users and
   personal_information as they were; and an authenticated request of a user
   without a personal_information row whose bio or address is missing is
   answered 422, with the user's stored email and phone_number unchanged,
   whatever email or phone_number the request carried. *)
C24_FailedUpdateChangesNothing ==
    [][resp' # resp /\ resp'.op = "update_profile" =>
         /\ resp'.status = 422 =>
                /\ resp'.error = "missing_fields"
                /\ UNCHANGED <<users, personal_information>>
         /\ \A data \in ProfileBodies :
                (/\ get_current_user(resp'.token).status = 200
                 /\ ~\E pi \in personal_information :
                        pi.user_id = get_current_user(resp'.token).user_id
                 /\ data.bio = None \/ data.address = None
                 /\ update_profile(resp'.token, data.email, data.phone_number,
                                   data.bio, data.address, data.gender))
                => /\ resp'.status = 422
                   /\ \A user \in users : user.id = resp'.user_id =>
                          \E same \in users' :
                              /\ same.id = user.id
                              /\ same.email = user.email
                              /\ same.phone_number = user.phone_number
      ]_vars

\* A request of a user without a personal_information row was refused, and
\* the user's row still reads e1 and p1.
C24_Witness ==
    /\ resp.op = "update_profile"
    /\ resp.status = 422
    /\ \E user \in users :
           /\ user.id = resp.user_id
           /\ user.email = "e1"
           /\ user.phone_number = "p1"
    /\ ~\E pi \in personal_information : pi.user_id = resp.user_id


(* C25: update_profile preserves the uniqueness of user emails.  After any
   sequence of registrations and update_profile requests no two users rows
   have the same email. *)
C25_EmailsStayUnique ==
    \A a, b \in users : a.email = b.email => a.id = b.id


(* C26: a user whose registration is not completed never obtains an access
   token.  No token issued so far has as its subject a user whose stored
   password is still the empty string; every login answered 200 is for a
   user with a password hash; and a login whose username matches only users
   with the empty password returns no token and issues none, whatever the
   password sent. *)
C26_PendingUserGetsNoToken ==
    /\ [](\A token \in issued : \A user \in users :
              token.sub = Str(user.id) => user.password # EmptyPassword)
    /\ [][resp' # resp /\ resp'.op = "login" =>
            /\ resp'.status = 200 =>
                   \E user \in users :
                       /\ user.id = resp'.user_id
                       /\ resp'.token.sub = Str(user.id)
                       /\ user.password # EmptyPassword
            /\ \A data \in LoginBodies :
                   (/\ LoginMatches(data.username) # {}
                    /\ \A user \in LoginMatches(data.username) :
                           user.password = EmptyPassword
                    /\ login(data.username, data.password))
                   => /\ resp'.status # 200
                      /\ resp'.token = NoToken
                      /\ issued' = issued
         ]_vars

\* A login with the email of a user whose OTP is still pending was answered
\* without a token, and no token carries that user's id.
C26_Witness ==
    /\ resp.op = "login"
    /\ resp.status = 500
    /\ resp.token = NoToken
    /\ \E user \in users :
           /\ user.password = EmptyPassword
           /\ user.remember_token # None
           /\ user.email = "e2"
           /\ ~\E token \in issued : token.sub = Str(user.id)


(* C27: initiate_registration is all-or-nothing with respect to the OTP
   e-mail.  When sending fails the request is answered 500 email_failed and
   its net effect on users is nil: the row it had committed is gone, every
   other row is untouched, and no row of this request is left to refuse a
   new initiate_registration for the same student and email.  When sending
   succeeds the request is answered 200 and its row is still stored.  A row
   whose e-mail outcome is still open is always stored. *)
C27_AllOrNothing ==
    /\ [](\A id \in pending_email : \E user \in users : user.id = id)
    /\ [][resp' # resp /\ resp'.op = "initiate_registration" =>
            /\ resp'.status = 500 =>
                   /\ resp'.error = "email_failed"
                   /\ \E row \in users :
                          /\ row.id = resp'.user_id
                          /\ users' = users \ {row}
                          /\ {user \in users' : \/ user.email = row.email
                                                \/ user.student_id = row.student_id}
                             = ExistingUsers(row.student_id, row.email) \ {row}
                   /\ ~\E user \in users' : user.id = resp'.user_id
            /\ resp'.status = 200 =>
                   /\ users' = users
                   /\ \E user \in users' : user.id = resp'.user_id
            /\ resp'.status \in {200, 400, 500}
         ]_vars
    /\ [][\A user \in users :
              (~\E kept \in users' : kept.id = user.id) =>
                  /\ resp'.op = "initiate_registration"
                  /\ resp'.status = 500
                  /\ resp'.user_id = user.id]_vars

\* The e-mail of student 2's request failed: the users table holds the first
\* user alone again, and nothing refuses a new request for student 2 and e2.
C27_Witness ==
    /\ resp.op = "initiate_registration"
    /\ resp.status = 500
    /\ resp.error = "email_failed"
    /\ users = {FirstUser}
    /\ ExistingUsers(2, "e2") = {}
    /\ pending_email = {}

=============================================================================
